---- MODULE Spec2Model ----
(***************************************************************************)
(* The mDNS service browser of bonjour-service (src/lib/browser.ts): the   *)
(* known-service list, the response handler registered with the record     *)
(* source, and the public operations start, stop, update and expire.       *)
(*                                                                         *)
(* DNS names are sequences of labels ("a._http._tcp.local" is              *)
(* <<"a", "_http", "_tcp", "local">>).  A resource record is a record with *)
(* the fields type, name, ttl and, by type, data (PTR), target and port    *)
(* (SRV), raw (TXT) and addr (A/AAAA); the fields a type does not use hold *)
(* a fixed filler.                                                         *)
(***************************************************************************)
EXTENDS Integers, Sequences, FiniteSets, TLC

\* ------------------------------------------------------------------------
\* Bounds of the model
\* ------------------------------------------------------------------------

\* The clock runs from 0 to MaxTime seconds.
MaxTime == 2

\* No name is queried more than MaxQueries times.
MaxQueries == 2

\* ------------------------------------------------------------------------
\* Constants of the program
\* ------------------------------------------------------------------------

TLD == "local"

WILDCARD == <<"_services", "_dns-sd", "_udp", TLD>>

\* service.ttl is in seconds, Date.now() in milliseconds.
MsPerSecond == 1000

\* ------------------------------------------------------------------------
\* Collaborators: name comparison, the service-type codec, the TXT codec,
\* TXT equality and the attribute filter
\* ------------------------------------------------------------------------

\* dnsEqual: two names are the same name.
dnsEqual(a, b) == a = b

\* The textual form of a type or protocol label, and back.
Underscored ==
    [l \in {"http", "ipp", "tcp", "udp"} |->
        CASE l = "http" -> "_http"
          [] l = "ipp" -> "_ipp"
          [] l = "tcp" -> "_tcp"
          [] OTHER -> "_udp"]

Stripped(l) ==
    IF \E t \in DOMAIN Underscored : Underscored[t] = l
    THEN CHOOSE t \in DOMAIN Underscored : Underscored[t] = l
    ELSE l

\* ServiceToString({name, protocol}): "_<name>._<protocol>".
ServiceToString(name, protocol) == <<Underscored[name], Underscored[protocol]>>

\* ServiceToType("_<name>._<protocol>"): the structured form.
ServiceToType(labels) ==
    [name     |-> IF Len(labels) >= 1 THEN Stripped(labels[1]) ELSE "",
     protocol |-> IF Len(labels) >= 2 THEN Stripped(labels[2]) ELSE ""]

\* A decoded TXT value: undefined (no TXT record was seen), or a mapping,
\* held as its set of <<key, value>> pairs.
Undefined == [defined |-> FALSE, map |-> {}]

EmptyTxt == [defined |-> TRUE, map |-> {}]

RECURSIVE DecodeInto(_, _, _)
DecodeInto(raw, i, map) ==
    IF i > Len(raw) THEN map
    ELSE DecodeInto(raw, i + 1,
                    {kv \in map : kv[1] # raw[i][1]} \cup {raw[i]})

\* DnsTxt.decodeAll: the raw "key=value" entries, in order, into one mapping.
decodeAll(raw) == [defined |-> TRUE, map |-> DecodeInto(raw, 1, {})]

\* equalTxt: equality of decoded content, whatever the order of the keys.
equalTxt(a, b) == a = b

\* filterService: every key of the query is present with the query's value;
\* no query admits everything.
filterService(service, txtQuery) ==
    \/ ~txtQuery.defined
    \/ \A kv \in txtQuery.map : service.txt.defined /\ kv \in service.txt.map

\* ------------------------------------------------------------------------
\* Resource records and packets
\* ------------------------------------------------------------------------

NoName == <<>>

PTR(name, data, ttl) ==
    [type |-> "PTR", name |-> name, ttl |-> ttl, data |-> data,
     target |-> NoName, port |-> 0, raw |-> <<>>, addr |-> ""]

SRV(name, target, port, ttl) ==
    [type |-> "SRV", name |-> name, ttl |-> ttl, data |-> NoName,
     target |-> target, port |-> port, raw |-> <<>>, addr |-> ""]

TXT(name, raw, ttl) ==
    [type |-> "TXT", name |-> name, ttl |-> ttl, data |-> NoName,
     target |-> NoName, port |-> 0, raw |-> raw, addr |-> ""]

A(name, addr, ttl) ==
    [type |-> "A", name |-> name, ttl |-> ttl, data |-> NoName,
     target |-> NoName, port |-> 0, raw |-> <<>>, addr |-> addr]

\* packet.answers.concat(packet.additionals)
AllRecords(packet) == packet.answers \o packet.additionals

\* ------------------------------------------------------------------------
\* Service records
\* ------------------------------------------------------------------------

\* The object buildServicesFor starts each candidate from; name, fqdn, host,
\* port, type and protocol are unset until an SRV record is seen.
NewService(ttl, receiveTime) ==
    [name |-> "", fqdn |-> NoName, host |-> NoName, port |-> 0,
     type |-> "", protocol |-> "", addresses |-> <<>>, subtypes |-> <<>>,
     rawTxt |-> <<>>, txt |-> Undefined, ttl |-> ttl, lastSeen |-> receiveTime]

\* Array.prototype.toString: the elements joined by ",".
RECURSIVE ArrayToString(_)
ArrayToString(arr) ==
    IF Len(arr) = 0 THEN <<>>
    ELSE IF Len(arr) = 1 THEN <<arr[1]>>
    ELSE <<arr[1], ",">> \o ArrayToString(Tail(arr))

\* rr.name.includes('._sub')
IncludesSub(name) == \E i \in 2..Len(name) : name[i] = "_sub"

\* name.split('.').slice(1, -1)
MiddleLabels(name) ==
    IF Len(name) <= 2 THEN <<>> ELSE SubSeq(name, 2, Len(name) - 1)

\* The forEach of buildServicesFor over the SRV and TXT records whose name
\* is the PTR record's data: each record overwrites what the one before set.
RECURSIVE ApplySrvTxt(_, _, _, _)
ApplySrvTxt(service, records, i, ptr) ==
    IF i > Len(records) THEN service
    ELSE LET rr == records[i] IN
         IF rr.type = "SRV" /\ dnsEqual(rr.name, ptr.data)
         THEN LET types == ServiceToType(MiddleLabels(rr.name)) IN
              ApplySrvTxt([service EXCEPT !.name = IF Len(rr.name) = 0 THEN ""
                                                   ELSE rr.name[1],
                                          !.fqdn = rr.name,
                                          !.host = rr.target,
                                          !.port = rr.port,
                                          !.type = types.name,
                                          !.protocol = types.protocol],
                          records, i + 1, ptr)
         ELSE IF rr.type = "TXT" /\ dnsEqual(rr.name, ptr.data)
         THEN ApplySrvTxt([service EXCEPT !.rawTxt = rr.raw,
                                          !.txt = decodeAll(rr.raw)],
                          records, i + 1, ptr)
         ELSE ApplySrvTxt(service, records, i + 1, ptr)

\* The subtype of a "<subtype>._sub._<name>._<protocol>.local" PTR name.
Subtype(name) == IF Len(name) = 0 THEN "" ELSE Stripped(name[1])

RECURSIVE ApplySubtypes(_, _, _, _)
ApplySubtypes(service, records, i, ptr) ==
    IF i > Len(records) THEN service
    ELSE LET rr == records[i] IN
         IF rr.type = "PTR" /\ dnsEqual(rr.data, ptr.data) /\ IncludesSub(rr.name)
         THEN ApplySubtypes([service EXCEPT !.subtypes = Append(@, Subtype(rr.name))],
                            records, i + 1, ptr)
         ELSE ApplySubtypes(service, records, i + 1, ptr)

RECURSIVE ApplyAddresses(_, _, _)
ApplyAddresses(service, records, i) ==
    IF i > Len(records) THEN service
    ELSE LET rr == records[i] IN
         IF rr.type \in {"A", "AAAA"} /\ dnsEqual(rr.name, service.host)
         THEN ApplyAddresses([service EXCEPT !.addresses = Append(@, rr.addr)],
                             records, i + 1)
         ELSE ApplyAddresses(service, records, i + 1)

\* Candidate collecting the addresses before the SRV record has set the host.
Candidate_AddressesFirst(ptr, records, receiveTime) ==
    LET s0 == NewService(ptr.ttl, receiveTime)
        s1 == ApplyAddresses(ApplySubtypes(s0, records, 1, ptr), records, 1)
    IN  ApplySrvTxt(s1, records, 1, ptr)

\* The candidate one PTR record yields; its name stays "" without an SRV.
Candidate(ptr, records, receiveTime) ==
    LET s0 == NewService(ptr.ttl, receiveTime)
        s1 == ApplySubtypes(s0, records, 1, ptr)
        s2 == ApplySrvTxt(s1, records, 1, ptr)
    IN  IF s2.name = "" THEN s2 ELSE ApplyAddresses(s2, records, 1)

\* Candidates keeping the candidates that found no SRV record.
RECURSIVE Candidates_KeepAll(_, _, _, _)
Candidates_KeepAll(ptrs, i, records, receiveTime) ==
    IF i > Len(ptrs) THEN <<>>
    ELSE <<Candidate(ptrs[i], records, receiveTime)>>
             \o Candidates_KeepAll(ptrs, i + 1, records, receiveTime)

RECURSIVE Candidates(_, _, _, _)
Candidates(ptrs, i, records, receiveTime) ==
    IF i > Len(ptrs) THEN <<>>
    ELSE LET c == Candidate(ptrs[i], records, receiveTime) IN
         (IF c.name = "" THEN <<>> ELSE <<c>>)
             \o Candidates(ptrs, i + 1, records, receiveTime)

PositiveRecord(rr) == rr.ttl > 0

\* buildServicesFor(name, packet, txt, referer, receiveTime)
buildServicesFor(name, packet, receiveTime) ==
    LET records == SelectSeq(AllRecords(packet), PositiveRecord)
        IsPtrFor(rr) == rr.type = "PTR" /\ dnsEqual(rr.name, name)
    IN  Candidates(SelectSeq(records, IsPtrFor), 1, records, receiveTime)

\* goodbyes(name, packet): the data of the PTR records with ttl 0 for name.
goodbyes(name, packet) ==
    LET IsGoodbye(rr) == rr.type = "PTR" /\ rr.ttl = 0 /\ dnsEqual(rr.name, name)
        byes == SelectSeq(AllRecords(packet), IsGoodbye)
    IN  [i \in 1..Len(byes) |-> byes[i].data]

\* ------------------------------------------------------------------------
\* The browser's state
\* ------------------------------------------------------------------------

VARIABLES
    wildcard,     \* this.wildcard
    thisName,     \* this.name
    txtQuery,     \* this.txtQuery
    onresponse,   \* this.onresponse is defined
    nameMap,      \* the names the registered handler listens for, in key order
    services,     \* this._services
    listeners,    \* the record source's listeners for 'response'
    queries,      \* how many times mdns.query(n, 'PTR') was called, by name n
    now,          \* Date.now()
    last,         \* the operation that ran last, with its input
    before,       \* the state that operation started from
    events,       \* the events that operation emitted, in order
    held          \* what the array the services accessor returned right
                  \* before that operation lists after it, by fqdn

engine == <<onresponse, nameMap, services, listeners, queries>>

config == <<wildcard, thisName, txtQuery>>

vars == <<wildcard, thisName, txtQuery, onresponse, nameMap, services,
          listeners, queries, now, last, before, events, held>>

\* ------------------------------------------------------------------------
\* The private methods, on st = [services, events, array, aliased]: array
\* is the content, by fqdn, of the array object that was this._services when
\* the operation began, and aliased says that this._services still is that
\* object.
\* ------------------------------------------------------------------------

Fqdns(list) == [i \in 1..Len(list) |-> list[i].fqdn]

\* this.emit(type, service, existingService); listed is the content of
\* this._services at the time of the call.
Emit(st, type, service, existingService) ==
    [st EXCEPT !.events =
        Append(@, [type |-> type, service |-> service,
                   existing |-> existingService, listed |-> Fqdns(st.services)])]

NoService == NewService(0, 0)

\* The index of the first service with this fqdn, 0 if there is none.
IndexOf(list, fqdn) ==
    IF \E i \in 1..Len(list) : dnsEqual(list[i].fqdn, fqdn)
    THEN CHOOSE i \in 1..Len(list) :
            /\ dnsEqual(list[i].fqdn, fqdn)
            /\ \A j \in 1..(i - 1) : ~dnsEqual(list[j].fqdn, fqdn)
    ELSE 0

Splice(list, i) == SubSeq(list, 1, i - 1) \o SubSeq(list, i + 1, Len(list))

\* removeService without the splice.
removeService_KeepsEntry(st, fqdn) ==
    LET index == IndexOf(st.services, fqdn) IN
    IF index = 0 THEN st
    ELSE Emit(st, "down", st.services[index], NoService)

removeService(st, fqdn) ==
    LET index == IndexOf(st.services, fqdn) IN
    IF index = 0 THEN st
    ELSE Emit([st EXCEPT !.services = Splice(@, index),
                         !.array = IF st.aliased THEN Splice(@, index) ELSE @],
              "down", st.services[index], NoService)

\* addService without the filter test.
addService_NoFilter(st, service, query) ==
    Emit([st EXCEPT !.services = Append(@, service),
                    !.array = IF st.aliased THEN Append(@, service.fqdn) ELSE @],
         "up", service, NoService)

addService(st, service, query) ==
    IF ~filterService(service, query) THEN st
    ELSE Emit([st EXCEPT !.services = Append(@, service),
                         !.array = IF st.aliased THEN Append(@, service.fqdn) ELSE @],
              "up", service, NoService)

replaceService(st, service) ==
    [st EXCEPT !.services =
        [i \in 1..Len(@) |->
            IF ~dnsEqual(@[i].fqdn, service.fqdn) THEN @[i] ELSE service],
               !.aliased = FALSE]

\* SrvChanged comparing the ttl as well.
SrvChanged_WithTtl(existingService, newService) ==
    \/ existingService.name # newService.name
    \/ existingService.host # newService.host
    \/ existingService.port # newService.port
    \/ existingService.type # newService.type
    \/ existingService.protocol # newService.protocol
    \/ existingService.ttl # newService.ttl
    \/ ArrayToString(existingService.addresses) # ArrayToString(newService.addresses)

\* The test of updateServiceSrv.
SrvChanged(existingService, newService) ==
    \/ existingService.name # newService.name
    \/ existingService.host # newService.host
    \/ existingService.port # newService.port
    \/ existingService.type # newService.type
    \/ existingService.protocol # newService.protocol
    \/ ArrayToString(existingService.addresses) # ArrayToString(newService.addresses)

updateServiceSrv(st, existingService, newService) ==
    IF SrvChanged(existingService, newService)
    THEN Emit(replaceService(st, newService),
              "srv-update", newService, existingService)
    ELSE st

\* existingService?.txt || {}
TxtOrEmpty(txt) == IF txt.defined THEN txt ELSE EmptyTxt

\* updateServiceTxt without the filter test.
updateServiceTxt_NoFilter(st, existingService, service, query) ==
    IF equalTxt(service.txt, TxtOrEmpty(existingService.txt)) THEN st
    ELSE Emit(replaceService(st, service), "txt-update", service, existingService)

updateServiceTxt(st, existingService, service, query) ==
    IF equalTxt(service.txt, TxtOrEmpty(existingService.txt)) THEN st
    ELSE IF ~filterService(service, query) THEN removeService(st, service.fqdn)
    ELSE Emit(replaceService(st, service), "txt-update", service, existingService)

\* HandleMatch comparing the TXT with the entry stored after updateServiceSrv.
HandleMatch_CurrentEntry(st, service, query) ==
    LET index == IndexOf(st.services, service.fqdn) IN
    IF index = 0 THEN addService(st, service, query)
    ELSE LET existingService ==
                 [st.services[index] EXCEPT !.lastSeen = service.lastSeen]
             st1 == [st EXCEPT !.services[index] = existingService]
             st2 == updateServiceSrv(st1, existingService, service)
         IN  updateServiceTxt(st2, st2.services[index], service, query)

\* HandleMatch without the lookup of an existing service.
HandleMatch_NoLookup(st, service, query) == addService(st, service, query)

\* The handling without existingService.lastSeen = service.lastSeen.
HandleMatch_NoRefresh(st, service, query) ==
    LET index == IndexOf(st.services, service.fqdn) IN
    IF index = 0 THEN addService(st, service, query)
    ELSE LET existingService == st.services[index]
             st2 == updateServiceSrv(st, existingService, service)
         IN  updateServiceTxt(st2, existingService, service, query)

\* The handling with the candidate's ttl copied to the stored entry as well.
HandleMatch_RefreshTtl(st, service, query) ==
    LET index == IndexOf(st.services, service.fqdn) IN
    IF index = 0 THEN addService(st, service, query)
    ELSE LET existingService ==
                 [st.services[index] EXCEPT !.lastSeen = service.lastSeen,
                                            !.ttl = service.ttl]
             st1 == [st EXCEPT !.services[index] = existingService]
             st2 == updateServiceSrv(st1, existingService, service)
         IN  updateServiceTxt(st2, existingService, service, query)

\* The body of matches.forEach in the response handler.
HandleMatch(st, service, query) ==
    LET index == IndexOf(st.services, service.fqdn) IN
    IF index = 0 THEN addService(st, service, query)
    ELSE LET existingService ==
                 [st.services[index] EXCEPT !.lastSeen = service.lastSeen]
             st1 == [st EXCEPT !.services[index] = existingService]
             st2 == updateServiceSrv(st1, existingService, service)
         IN  updateServiceTxt(st2, existingService, service, query)

RECURSIVE HandleMatches(_, _, _, _)
HandleMatches(st, matches, i, query) ==
    IF i > Len(matches) THEN st
    ELSE HandleMatches(HandleMatch(st, matches[i], query), matches, i + 1, query)

RECURSIVE RemoveAll(_, _, _)
RemoveAll(st, fqdns, i) ==
    IF i > Len(fqdns) THEN st
    ELSE RemoveAll(removeService(st, fqdns[i]), fqdns, i + 1)

\* The body with the candidates matched before the goodbyes are removed.
HandleName_MatchFirst(st, n, packet, receiveTime, query) ==
    LET matches == buildServicesFor(n, packet, receiveTime)
        st1 == HandleMatches(st, matches, 1, query)
    IN  RemoveAll(st1, goodbyes(n, packet), 1)

\* The body of Object.keys(nameMap).forEach in the response handler.
HandleName(st, n, packet, receiveTime, query) ==
    LET st1 == RemoveAll(st, goodbyes(n, packet), 1)
        matches == buildServicesFor(n, packet, receiveTime)
    IN  HandleMatches(st1, matches, 1, query)

RECURSIVE HandleNames(_, _, _, _, _, _)
HandleNames(st, names, i, packet, receiveTime, query) ==
    IF i > Len(names) THEN st
    ELSE HandleNames(HandleName(st, names[i], packet, receiveTime, query),
                     names, i + 1, packet, receiveTime, query)

\* answer.name in nameMap
InNameMap(n, map) == \E i \in 1..Len(map) : map[i] = n

\* nameMap[answer.data] = true
SetKey(map, n) == IF InNameMap(n, map) THEN map ELSE Append(map, n)

\* The wildcard step of the response handler, on w = [nameMap, queried]:
\* queried lists the names passed to mdns.query, in call order.
RECURSIVE WildcardStep(_, _, _, _)
WildcardStep(w, answers, i, self) ==
    IF i > Len(answers) THEN w
    ELSE LET answer == answers[i] IN
         IF answer.type # "PTR" \/ answer.name # self \/ InNameMap(answer.name, w.nameMap)
         THEN WildcardStep(w, answers, i + 1, self)
         ELSE WildcardStep([nameMap |-> SetKey(w.nameMap, answer.data),
                            queried |-> Append(w.queried, answer.data)],
                           answers, i + 1, self)

\* ------------------------------------------------------------------------
\* The network: the names, records and packets the record source delivers
\* ------------------------------------------------------------------------

HttpTcp == ServiceToString("http", "tcp") \o <<TLD>>

IppTcp == ServiceToString("ipp", "tcp") \o <<TLD>>

InstanceA == <<"a">> \o HttpTcp

InstanceB == <<"b">> \o HttpTcp

Host1 == <<"h1", TLD>>

Host2 == <<"h2", TLD>>

\* Raw TXT payloads: RawKJ and RawJK decode to the same mapping.
RawK1 == << <<"k", "1">> >>

RawK2 == << <<"k", "2">> >>

RawKJ == << <<"k", "1">>, <<"j", "1">> >>

RawJK == << <<"j", "1">>, <<"k", "1">> >>

Addr1 == "10.0.0.1"

Addr2 == "10.0.0.2"

Pkt(answers, additionals) == [answers |-> answers, additionals |-> additionals]

\* One PTR answer for an instance, with the records about it as additionals.
Announce(type, instance, ttl, additionals) ==
    Pkt(<<PTR(type, instance, ttl)>>, additionals)

SrvA == {SRV(InstanceA, Host1, 80, 1), SRV(InstanceA, Host1, 81, 1),
         SRV(InstanceA, Host2, 80, 1), SRV(InstanceA, Host1, 80, 0)}

TxtA == {TXT(InstanceA, raw, 1) : raw \in {RawK1, RawK2, RawKJ, RawJK}}

ARecords == {A(Host1, Addr1, 1), A(Host1, Addr2, 1), A(Host2, Addr1, 1)}

\* The sequences over S of length at most one, and of length one or two.
UpTo1(S) == {<<>>} \cup {<<x>> : x \in S}

OneOrTwo(S) == {<<x>> : x \in S} \cup {<<x, y>> : x, y \in S}

\* The full record set of instance a: SRV, TXT and A.
FullA == <<SRV(InstanceA, Host1, 80, 1), TXT(InstanceA, RawK1, 1), A(Host1, Addr1, 1)>>

FullB == <<SRV(InstanceB, Host2, 80, 1), A(Host2, Addr1, 1)>>

\* Two A records of the first host: both orders of its two addresses, and
\* one address repeated.
AddressPairs == {<<A(Host1, x, 1), A(Host1, y, 1)>> : x, y \in {Addr1, Addr2}}

\* Announcements of instance a: every SRV record with every A record, two A
\* records of one host, every TXT record or none, the other ttl, and the
\* record sets without an SRV.
AnnouncePackets(type) ==
    {Announce(type, InstanceA, 1, <<srv, TXT(InstanceA, RawK1, 1)>> \o as) :
        srv \in SrvA, as \in UpTo1(ARecords)}
    \cup {Announce(type, InstanceA, 1,
                   <<SRV(InstanceA, Host1, 80, 1), TXT(InstanceA, RawK1, 1)>> \o as) :
            as \in AddressPairs}
    \cup {Announce(type, InstanceA, 1,
                   <<SRV(InstanceA, Host1, 80, 1)>> \o txt \o <<A(Host1, Addr1, 1)>>) :
            txt \in UpTo1(TxtA)}
    \cup {Announce(type, InstanceA, 2, FullA),
          Announce(type, InstanceA, 1, Tail(FullA)),
          Announce(type, InstanceA, 1, <<>>)}

\* The PTR record repeated in the additionals, with the same or another ttl.
RepeatPackets(type) ==
    {Pkt(<<PTR(type, InstanceA, 1)>>, <<PTR(type, InstanceA, ttl)>> \o FullA) :
        ttl \in {1, 2}}

\* Goodbyes, alone or repeated, and a goodbye with an announcement.
GoodbyePackets(type) ==
    {Pkt(byes, <<>>) :
        byes \in OneOrTwo({PTR(type, InstanceA, 0), PTR(type, InstanceB, 0)})}
    \cup {Pkt(<<PTR(type, InstanceA, 0), PTR(type, InstanceA, 1)>>, FullA),
          Pkt(<<PTR(type, InstanceA, 1), PTR(type, InstanceA, 0)>>, FullA)}

\* Instance b, alone and together with instance a.
OtherPackets(type) ==
    {Announce(type, InstanceB, 1, FullB),
     Announce(type, InstanceB, 1, <<FullB[1]>>),
     Pkt(<<PTR(type, InstanceA, 1), PTR(type, InstanceB, 1)>>, FullA \o FullB),
     Pkt(<<PTR(type, InstanceB, 1), PTR(type, InstanceA, 1)>>, FullA \o FullB)}

DirectPackets ==
    AnnouncePackets(HttpTcp) \cup RepeatPackets(HttpTcp)
        \cup GoodbyePackets(HttpTcp) \cup OtherPackets(HttpTcp)

Meta(type) == PTR(WILDCARD, type, 1)

\* In wildcard mode: the meta-PTR answers for one or two types, alone or
\* with an announcement, and announcements and goodbyes of instance a under
\* both types.
WildcardPackets ==
    {Pkt(metas, <<>>) : metas \in OneOrTwo({Meta(HttpTcp), Meta(IppTcp)})}
    \cup {Pkt(<<Meta(HttpTcp), PTR(HttpTcp, InstanceA, 1)>>, FullA)}
    \cup {Announce(type, InstanceA, 1, <<srv>> \o Tail(FullA)) :
            type \in {HttpTcp, IppTcp},
            srv \in {SRV(InstanceA, Host1, 80, 1), SRV(InstanceA, Host1, 81, 1)}}
    \cup {Pkt(<<PTR(HttpTcp, InstanceA, 1), PTR(IppTcp, InstanceA, 1)>>, FullA),
          Pkt(<<PTR(HttpTcp, InstanceA, 1), PTR(IppTcp, InstanceA, 1)>>,
              <<PTR(HttpTcp, InstanceA, 2)>> \o FullA),
          Pkt(<<PTR(HttpTcp, InstanceA, 0), PTR(IppTcp, InstanceA, 0)>>, <<>>),
          Pkt(<<PTR(HttpTcp, InstanceA, 0)>>, <<>>),
          Announce(HttpTcp, InstanceB, 1, FullB)}

Packets == IF wildcard THEN WildcardPackets ELSE DirectPackets

\* ------------------------------------------------------------------------
\* Construction
\* ------------------------------------------------------------------------

\* The filter of a browser constructed with txt: {k: '1'}.
QueryK1 == decodeAll(RawK1)

Names == {HttpTcp, IppTcp, WILDCARD}

None == [op |-> "none", packet |-> [answers |-> <<>>, additionals |-> <<>>]]

NoState == [onresponse |-> FALSE, nameMap |-> <<>>, services |-> <<>>,
            listeners |-> 0, queries |-> [n \in Names |-> 0], now |-> 0]

Snapshot == [onresponse |-> onresponse, nameMap |-> nameMap, services |-> services,
             listeners |-> listeners, queries |-> queries, now |-> now]

\* new Browser(mdns, opts): opts.type selects the name, opts.txt the filter;
\* the constructor ends with this.start().
Constructed(isWildcard, query) ==
    /\ wildcard = isWildcard
    /\ thisName = IF isWildcard THEN WILDCARD ELSE HttpTcp
    /\ txtQuery = query
    /\ onresponse = TRUE
    /\ nameMap = IF isWildcard THEN <<>> ELSE <<thisName>>
    /\ services = <<>>
    /\ listeners = 1
    /\ queries = [n \in Names |-> IF n = thisName THEN 1 ELSE 0]
    /\ now = 0
    /\ last = None
    /\ before = NoState
    /\ events = <<>>
    /\ held = <<>>

\* A browser for type "http", without and with a TXT filter, and a wildcard
\* browser.
Init == Constructed(FALSE, Undefined)

InitFilter == Constructed(FALSE, QueryK1)

InitWildcard == Constructed(TRUE, Undefined)

\* ------------------------------------------------------------------------
\* Operations
\* ------------------------------------------------------------------------

Idle == last.op = "none"

Ran(op, packet) ==
    /\ last' = [op |-> op, packet |-> packet]
    /\ before' = Snapshot

\* The operation did not touch the array this._services was.
ArrayUntouched == held' = Fqdns(services)

\* The state the private methods start from.
Entering == [services |-> services, events |-> <<>>,
             array |-> Fqdns(services), aliased |-> TRUE]

\* this.update(): mdns.query(this.name, 'PTR')
Query(q, n) == [q EXCEPT ![n] = @ + 1]

RECURSIVE QueryAll(_, _, _)
QueryAll(q, names, i) ==
    IF i > Len(names) THEN q ELSE QueryAll(Query(q, names[i]), names, i + 1)

\* start() without the early return of a browser that is listening.
Start_Again ==
    /\ Idle
    /\ queries[thisName] < MaxQueries
    /\ onresponse' = TRUE
    /\ nameMap' = IF wildcard THEN <<>> ELSE <<thisName>>
    /\ listeners' = listeners + 1
    /\ queries' = Query(queries, thisName)
    /\ UNCHANGED services
    /\ events' = <<>>
    /\ ArrayUntouched
    /\ Ran("start", None.packet)
    /\ UNCHANGED <<config, now>>

\* start() with a nameMap that outlives the handler it was created for.
Start_KeepsNameMap ==
    /\ Idle
    /\ IF onresponse
       THEN UNCHANGED engine
       ELSE /\ queries[thisName] < MaxQueries
            /\ onresponse' = TRUE
            /\ nameMap' = IF wildcard THEN nameMap ELSE <<thisName>>
            /\ listeners' = listeners + 1
            /\ queries' = Query(queries, thisName)
            /\ UNCHANGED services
    /\ events' = <<>>
    /\ ArrayUntouched
    /\ Ran("start", None.packet)
    /\ UNCHANGED <<config, now>>

Start ==
    /\ Idle
    /\ IF onresponse
       THEN UNCHANGED engine
       ELSE /\ queries[thisName] < MaxQueries
            /\ onresponse' = TRUE
            /\ nameMap' = IF wildcard THEN <<>> ELSE <<thisName>>
            /\ listeners' = listeners + 1
            /\ queries' = Query(queries, thisName)
            /\ UNCHANGED services
    /\ events' = <<>>
    /\ ArrayUntouched
    /\ Ran("start", None.packet)
    /\ UNCHANGED <<config, now>>

\* stop() without mdns.removeListener.
Stop_KeepsListener ==
    /\ Idle
    /\ IF ~onresponse
       THEN UNCHANGED engine
       ELSE /\ onresponse' = FALSE
            /\ UNCHANGED <<nameMap, services, queries, listeners>>
    /\ events' = <<>>
    /\ ArrayUntouched
    /\ Ran("stop", None.packet)
    /\ UNCHANGED <<config, now>>

Stop ==
    /\ Idle
    /\ IF ~onresponse
       THEN UNCHANGED engine
       ELSE /\ listeners' = listeners - 1
            /\ onresponse' = FALSE
            /\ UNCHANGED <<nameMap, services, queries>>
    /\ events' = <<>>
    /\ ArrayUntouched
    /\ Ran("stop", None.packet)
    /\ UNCHANGED <<config, now>>

Update ==
    /\ Idle
    /\ queries[thisName] < MaxQueries
    /\ queries' = Query(queries, thisName)
    /\ events' = <<>>
    /\ ArrayUntouched
    /\ Ran("update", None.packet)
    /\ UNCHANGED <<config, now, onresponse, nameMap, services, listeners>>

\* The filter callback of expire(), on st = [services, events, kept]: kept
\* is the array filter() is building, st.services the array it iterates.
\* Expired with <= for <.
Expired_AtDeadline(service, currentTime) ==
    /\ service.ttl # 0
    /\ service.lastSeen + service.ttl * MsPerSecond <= currentTime

Expired(service, currentTime) ==
    /\ service.ttl # 0
    /\ service.lastSeen + service.ttl * MsPerSecond < currentTime

RECURSIVE ExpireFrom(_, _, _)
\* The filter of expire() with a callback that returns true for every
\* service, also after it has emitted down.
ExpireFrom_KeepsAll(st, i, currentTime) ==
    IF i > Len(st.services) THEN st
    ELSE LET service == st.services[i] IN
         IF Expired(service, currentTime)
         THEN ExpireFrom([Emit(st, "down", service, NoService)
                              EXCEPT !.kept = Append(@, service)], i + 1, currentTime)
         ELSE ExpireFrom([st EXCEPT !.kept = Append(@, service)], i + 1, currentTime)

ExpireFrom(st, i, currentTime) ==
    IF i > Len(st.services) THEN st
    ELSE LET service == st.services[i] IN
         IF Expired(service, currentTime)
         THEN ExpireFrom(Emit(st, "down", service, NoService), i + 1, currentTime)
         ELSE ExpireFrom([st EXCEPT !.kept = Append(@, service)], i + 1, currentTime)

Expire ==
    /\ Idle
    /\ LET st == ExpireFrom([services |-> services, events |-> <<>>, kept |-> <<>>],
                            1, now)
       IN  /\ services' = st.kept
           /\ events' = st.events
    /\ ArrayUntouched
    /\ Ran("expire", None.packet)
    /\ UNCHANGED <<config, now, onresponse, nameMap, listeners, queries>>

\* The record source emits 'response': every registered handler runs.
Response(packet) ==
    /\ Idle
    /\ IF listeners = 0
       THEN /\ UNCHANGED engine
            /\ events' = <<>>
            /\ ArrayUntouched
       ELSE LET w == IF wildcard
                     THEN WildcardStep([nameMap |-> nameMap, queried |-> <<>>],
                                       packet.answers, 1, thisName)
                     ELSE [nameMap |-> nameMap, queried |-> <<>>]
                st == HandleNames(Entering, w.nameMap, 1, packet, now, txtQuery)
                q == QueryAll(queries, w.queried, 1)
            IN  /\ \A n \in Names : q[n] <= MaxQueries
                /\ nameMap' = w.nameMap
                /\ queries' = q
                /\ services' = st.services
                /\ events' = st.events
                /\ held' = st.array
                /\ UNCHANGED <<onresponse, listeners>>
    /\ Ran("response", packet)
    /\ UNCHANGED <<config, now>>

\* A second of time passes.
Tick ==
    /\ Idle
    /\ now < MaxTime * MsPerSecond
    /\ now' = now + MsPerSecond
    /\ UNCHANGED <<config, engine, last, before, events, held>>

\* The caller has seen what the last operation did.
Return ==
    /\ ~Idle
    /\ last' = None
    /\ before' = NoState
    /\ events' = <<>>
    /\ held' = <<>>
    /\ UNCHANGED <<config, engine, now>>

Next ==
    \/ Start
    \/ Stop
    \/ Update
    \/ Expire
    \/ \E packet \in Packets : Response(packet)
    \/ Tick
    \/ Return

Spec == Init /\ [][Next]_vars

SpecFilter == InitFilter /\ [][Next]_vars

SpecWildcard == InitWildcard /\ [][Next]_vars

\* Any of the three browsers.
SpecAny == (Init \/ InitFilter \/ InitWildcard) /\ [][Next]_vars

\* ------------------------------------------------------------------------
\* What the last operation was given and what it did
\* ------------------------------------------------------------------------

Instances == {InstanceA, InstanceB}

Types == {HttpTcp, IppTcp}

Known(list, fqdn) == \E i \in 1..Len(list) : list[i].fqdn = fqdn

\* The stored entry for fqdn; the list holds one.
Entry(list, fqdn) == list[CHOOSE i \in 1..Len(list) : list[i].fqdn = fqdn]

\* The positions in events of the events of one type about one service.
EventsAbout(type, fqdn) ==
    {i \in 1..Len(events) : events[i].type = type /\ events[i].service.fqdn = fqdn}

Handled == last.op = "response" /\ before.onresponse

Received == AllRecords(last.packet)

\* The names the handler went through for the packet.
Tracked(n) == InNameMap(n, nameMap)

\* The packet holds a PTR record for a tracked name that names fqdn, with a
\* positive ttl (an announcement) or with ttl 0 (a goodbye).
Announces(fqdn) ==
    \E i \in 1..Len(Received) :
        /\ Received[i].type = "PTR" /\ Received[i].ttl > 0
        /\ Tracked(Received[i].name) /\ Received[i].data = fqdn

SaysGoodbye(fqdn) ==
    \E i \in 1..Len(Received) :
        /\ Received[i].type = "PTR" /\ Received[i].ttl = 0
        /\ Tracked(Received[i].name) /\ Received[i].data = fqdn

\* The records of one type with a positive ttl and the given name.
About(type, n) ==
    SelectSeq(Received, LAMBDA rr : rr.type = type /\ rr.ttl > 0 /\ rr.name = n)

\* ------------------------------------------------------------------------
\* C1: the known-service list never holds two services with the same
\* fully-qualified name.
\* ------------------------------------------------------------------------

C1_UniqueFqdn ==
    \A i, j \in 1..Len(services) :
        i # j => ~dnsEqual(services[i].fqdn, services[j].fqdn)

\* A wildcard browser tracking two types has handled a packet that names
\* instance a under both and repeats the PTR record in the additionals.
C1_Witness ==
    /\ Handled /\ wildcard /\ Len(nameMap) = 2
    /\ Len(About("PTR", HttpTcp)) = 2 /\ Len(About("PTR", IppTcp)) = 1
    /\ Len(last.packet.additionals) > 3
    /\ Known(before.services, InstanceB)
    /\ Len(services) = 2
    /\ Known(services, InstanceA)

\* ------------------------------------------------------------------------
\* C2: a listening browser without a filter that does not know the service
\* and handles a packet with a consistent PTR+SRV+TXT+A record set for it
\* (positive ttls, no goodbye) emits exactly one up event for the service,
\* with host, port, type, protocol, txt and an address from those records,
\* and the service is known afterwards; also when the PTR record repeats.
\* ------------------------------------------------------------------------

\* The records about fqdn agree: one SRV content, one TXT content, and an
\* address record for the SRV target.
Consistent(fqdn) ==
    LET srvs == About("SRV", fqdn)
        txts == About("TXT", fqdn)
    IN  /\ Announces(fqdn) /\ ~SaysGoodbye(fqdn)
        /\ Len(srvs) >= 1 /\ Len(txts) >= 1
        /\ \A i \in 1..Len(srvs) :
              srvs[i].target = srvs[1].target /\ srvs[i].port = srvs[1].port
        /\ \A i \in 1..Len(txts) : txts[i].raw = txts[1].raw
        /\ Len(About("A", srvs[1].target)) >= 1

\* The mapping a raw TXT payload with distinct keys stands for.
Pairs(raw) == {raw[i] : i \in 1..Len(raw)}

Populated(service, fqdn) ==
    LET srv == About("SRV", fqdn)[1]
        as == About("A", srv.target)
    IN  /\ service.fqdn = fqdn
        /\ service.host = srv.target /\ service.port = srv.port
        /\ service.type = "http" /\ service.protocol = "tcp"
        /\ service.txt.defined
        /\ service.txt.map = Pairs(About("TXT", fqdn)[1].raw)
        /\ Len(service.addresses) >= 1
        /\ \A i \in 1..Len(service.addresses) :
              \E j \in 1..Len(as) : as[j].addr = service.addresses[i]

C2_OneUp ==
    (Handled /\ ~txtQuery.defined) =>
        \A f \in Instances :
            (~Known(before.services, f) /\ Consistent(f)) =>
                /\ Cardinality(EventsAbout("up", f)) = 1
                /\ \A i \in EventsAbout("up", f) :
                      /\ Populated(events[i].service, f)
                      /\ Known(services, f)
                      /\ Entry(services, f) = events[i].service

\* Such a packet, with the PTR record in the answers and in the additionals,
\* has been handled.
C2_Witness ==
    /\ Handled /\ ~txtQuery.defined /\ ~wildcard
    /\ ~Known(before.services, InstanceA) /\ Consistent(InstanceA)
    /\ Len(About("PTR", HttpTcp)) = 2
    /\ Cardinality(EventsAbout("up", InstanceA)) = 1

\* ------------------------------------------------------------------------
\* C3: a packet with a goodbye for a known service under a tracked name
\* removes the service and emits exactly one down event for it, also when
\* the goodbye repeats (the service is known afterwards only if the packet
\* announces it again, after the down); a packet of goodbyes for services
\* that are not known changes nothing and emits nothing.
\* ------------------------------------------------------------------------

OnlyGoodbyes ==
    /\ Len(Received) >= 1
    /\ \A i \in 1..Len(Received) : Received[i].type = "PTR" /\ Received[i].ttl = 0

EngineUnchanged ==
    /\ onresponse = before.onresponse /\ nameMap = before.nameMap
    /\ services = before.services /\ listeners = before.listeners
    /\ queries = before.queries

C3_Goodbye ==
    Handled =>
        /\ \A f \in Instances :
              (SaysGoodbye(f) /\ Known(before.services, f)) =>
                  /\ Cardinality(EventsAbout("down", f)) = 1
                  /\ \A d \in EventsAbout("down", f) :
                        /\ events[d].service = Entry(before.services, f)
                        /\ \A i \in 1..(d - 1) : events[i].service.fqdn # f
                        /\ Known(services, f) =>
                              /\ Announces(f)
                              /\ \E u \in EventsAbout("up", f) : u > d
        /\ (OnlyGoodbyes /\ \A i \in 1..Len(Received) :
                                ~Known(before.services, Received[i].data)) =>
              EngineUnchanged /\ events = <<>>

\* A repeated goodbye for a known service has been handled and the service
\* is gone; and the same packet has been handled when nothing was known.
C3_Witness ==
    /\ Handled /\ OnlyGoodbyes /\ Len(Received) = 2
    /\ Received[1] = Received[2]
    /\ Known(before.services, InstanceA) /\ ~Known(services, InstanceA)
    /\ Len(services) = 1

\* ------------------------------------------------------------------------
\* C4: a packet that announces a known service with SRV and TXT records
\* identical to the stored entry's emits no srv-update and no txt-update.
\* ------------------------------------------------------------------------

\* The addresses the packet gives for a host, in record order.
AddressesIn(host) ==
    LET as == SelectSeq(Received, LAMBDA rr : /\ rr.type \in {"A", "AAAA"}
                                               /\ rr.ttl > 0 /\ rr.name = host)
    IN  [i \in 1..Len(as) |-> as[i].addr]

\* The packet announces the known service fqdn with the SRV and TXT content
\* its stored entry was built from.
SameSrvAndTxt(fqdn) ==
    /\ Known(before.services, fqdn) /\ Announces(fqdn)
    /\ LET entry == Entry(before.services, fqdn)
           srvs == About("SRV", fqdn)
           txts == About("TXT", fqdn)
       IN  /\ Len(srvs) >= 1 /\ Len(txts) >= 1 /\ entry.txt.defined
           /\ \A i \in 1..Len(srvs) :
                 srvs[i].target = entry.host /\ srvs[i].port = entry.port
           /\ \A i \in 1..Len(txts) : txts[i].raw = entry.rawTxt

NoUpdate(fqdn) ==
    EventsAbout("srv-update", fqdn) = {} /\ EventsAbout("txt-update", fqdn) = {}

\* The claim as stated: whatever else the packet holds or omits.
C4_AnyOtherRecords ==
    Handled => \A f \in Instances : SameSrvAndTxt(f) => NoUpdate(f)

\* C4, amended: no txt-update; and no srv-update when the packet's A/AAAA
\* records for the host give the stored entry's address list.
C4_SameAddresses ==
    Handled =>
        \A f \in Instances :
            SameSrvAndTxt(f) =>
                /\ EventsAbout("txt-update", f) = {}
                /\ AddressesIn(Entry(before.services, f).host)
                       = Entry(before.services, f).addresses => NoUpdate(f)

\* A known service with an address has been announced again with the same
\* SRV, TXT and A records, under another ttl.
C4_Witness ==
    /\ Handled /\ SameSrvAndTxt(InstanceA)
    /\ Len(Entry(before.services, InstanceA).addresses) = 1
    /\ AddressesIn(Host1) = Entry(before.services, InstanceA).addresses
    /\ \E i \in 1..Len(Received) :
          Received[i].type = "PTR" /\ Received[i].ttl = 2
    /\ Entry(before.services, InstanceA).ttl = 1
    /\ events = <<>>

\* ------------------------------------------------------------------------
\* C5: for a known service and a packet that yields a candidate for it whose
\* TXT satisfies the filter, srv-update is emitted exactly when host, port or
\* addresses differ, txt-update exactly when the decoded TXT differs, each
\* carrying the candidate and the old entry; after an update the stored
\* entry is the candidate.
\* ------------------------------------------------------------------------

Last(seq) == seq[Len(seq)]

MapOf(txt) == IF txt.defined THEN txt.map ELSE {}

Satisfies(map) == ~txtQuery.defined \/ txtQuery.map \subseteq map

\* The packet yields a candidate for the known service fqdn, with a TXT.
Updates(fqdn) ==
    /\ Handled /\ Known(before.services, fqdn)
    /\ Announces(fqdn) /\ ~SaysGoodbye(fqdn)
    /\ Len(About("SRV", fqdn)) >= 1 /\ Len(About("TXT", fqdn)) >= 1

SrvDiffers(fqdn) ==
    LET old == Entry(before.services, fqdn)
        srv == Last(About("SRV", fqdn))
    IN  \/ old.host # srv.target
        \/ old.port # srv.port
        \/ old.addresses # AddressesIn(srv.target)

TxtDiffers(fqdn) ==
    MapOf(Entry(before.services, fqdn).txt) # Pairs(Last(About("TXT", fqdn)).raw)

\* The event carries the candidate of the packet and the old entry.
CarriesBoth(e, fqdn) ==
    LET old == Entry(before.services, fqdn)
        srv == Last(About("SRV", fqdn))
    IN  /\ e.service.host = srv.target /\ e.service.port = srv.port
        /\ e.service.addresses = AddressesIn(srv.target)
        /\ e.service.txt = [defined |-> TRUE,
                            map |-> Pairs(Last(About("TXT", fqdn)).raw)]
        /\ e.service.lastSeen = before.now
        /\ e.existing = [old EXCEPT !.lastSeen = before.now]

C5_IndependentUpdates ==
    \A f \in Instances :
        (Updates(f) /\ Satisfies(Pairs(Last(About("TXT", f)).raw))) =>
            LET srvUpdates == EventsAbout("srv-update", f)
                txtUpdates == EventsAbout("txt-update", f)
            IN  /\ Cardinality(srvUpdates) = IF SrvDiffers(f) THEN 1 ELSE 0
                /\ Cardinality(txtUpdates) = IF TxtDiffers(f) THEN 1 ELSE 0
                /\ \A i \in srvUpdates \cup txtUpdates :
                      /\ CarriesBoth(events[i], f)
                      /\ Entry(services, f) = events[i].service
                /\ Known(services, f)
                /\ EventsAbout("up", f) = {} /\ EventsAbout("down", f) = {}

\* A packet that changes the port and the TXT of a known service has been
\* handled and both events were emitted.
C5_Witness ==
    /\ Updates(InstanceA) /\ txtQuery.defined
    /\ SrvDiffers(InstanceA) /\ TxtDiffers(InstanceA)
    /\ Len(events) = 2
    /\ events[1].type = "srv-update" /\ events[2].type = "txt-update"

\* ------------------------------------------------------------------------
\* C6: a packet that gives a known service a TXT that fails the filter
\* removes the service and emits down for it, and no txt-update, also when
\* the packet changes the SRV fields.
\* ------------------------------------------------------------------------

C6_FilteredOut ==
    \A f \in Instances :
        (Updates(f) /\ txtQuery.defined
                    /\ ~Satisfies(Pairs(Last(About("TXT", f)).raw))) =>
            /\ ~Known(services, f)
            /\ Cardinality(EventsAbout("down", f)) = 1
            /\ EventsAbout("txt-update", f) = {}

\* A packet has changed the port and made the TXT fail the filter.
C6_Witness ==
    /\ Updates(InstanceA) /\ txtQuery.defined
    /\ ~Satisfies(Pairs(Last(About("TXT", InstanceA)).raw))
    /\ SrvDiffers(InstanceA)
    /\ Len(events) = 2
    /\ events[1].type = "srv-update" /\ events[2].type = "down"

\* ------------------------------------------------------------------------
\* C7: a wildcard browser issues a secondary PTR query for a type exactly
\* when a handled packet has a meta-PTR answer for a type its handler has
\* not seen before, and then once.
\* ------------------------------------------------------------------------

HasMetaAnswer(type) ==
    \E i \in 1..Len(last.packet.answers) :
        /\ last.packet.answers[i].type = "PTR"
        /\ last.packet.answers[i].name = WILDCARD
        /\ last.packet.answers[i].data = type

C7_QueriedOnce ==
    (Handled /\ wildcard) =>
        \A t \in Types :
            queries[t] - before.queries[t] =
                IF HasMetaAnswer(t) /\ ~InNameMap(t, before.nameMap) THEN 1 ELSE 0

\* ------------------------------------------------------------------------
\* C8: expire() removes exactly the services with a non-zero ttl and
\* lastSeen + ttl * 1000 < now, emits one down event for each, in order, and
\* keeps the others as they were, in order.
\* ------------------------------------------------------------------------

Stale(service) ==
    service.ttl # 0 /\ service.lastSeen + service.ttl * 1000 < before.now

Fresh(service) == ~Stale(service)

C8_Expire ==
    last.op = "expire" =>
        /\ services = SelectSeq(before.services, Fresh)
        /\ [i \in 1..Len(events) |-> events[i].service]
               = SelectSeq(before.services, Stale)
        /\ \A i \in 1..Len(events) : events[i].type = "down"

\* expire() has removed one of two services and kept the one whose ttl
\* runs out at the time of the call.
C8_Witness ==
    /\ last.op = "expire"
    /\ Len(before.services) = 2 /\ Len(services) = 1 /\ Len(events) = 1
    /\ services[1].lastSeen + services[1].ttl * 1000 = before.now
    /\ services[1] = before.services[2]

\* ------------------------------------------------------------------------
\* C9: a packet whose PTR record for a tracked name names an instance with
\* no SRV record of a positive ttl adds and changes no entry for it and
\* emits no up or update for it; every service stored or reported has a
\* name, a host and a port, which an up or update event has from an SRV
\* record of the packet.
\* ------------------------------------------------------------------------

FromSrv(service) ==
    /\ service.name # "" /\ service.fqdn \in Instances
    /\ service.host # NoName /\ service.port # 0

C9_NoSrvNoService ==
    /\ Handled =>
          \A f \in Instances :
              (Announces(f) /\ Len(About("SRV", f)) = 0) =>
                  /\ \A i \in 1..Len(events) :
                        events[i].service.fqdn = f => events[i].type = "down"
                  /\ Known(services, f) =>
                        /\ Known(before.services, f)
                        /\ Entry(services, f) = Entry(before.services, f)
    /\ \A i \in 1..Len(services) : FromSrv(services[i])
    /\ \A i \in 1..Len(events) :
          /\ FromSrv(events[i].service)
          /\ events[i].type # "down" =>
                \E j \in 1..Len(Received) :
                    /\ Received[j].type = "SRV" /\ Received[j].ttl > 0
                    /\ Received[j].name = events[i].service.fqdn
                    /\ Received[j].target = events[i].service.host
                    /\ Received[j].port = events[i].service.port

\* A packet with PTR, TXT and A records and an SRV record of ttl 0 has been
\* handled.
C9_Witness ==
    /\ Handled /\ Announces(InstanceA)
    /\ Len(About("SRV", InstanceA)) = 0
    /\ \E i \in 1..Len(Received) : Received[i].type = "SRV"
    /\ Len(About("TXT", InstanceA)) = 1 /\ Len(About("A", Host1)) = 1
    /\ events = <<>> /\ services = before.services

\* ------------------------------------------------------------------------
\* C10: stop() leaves the known services as they are and emits nothing; a
\* packet the record source delivers while the browser is stopped changes
\* nothing and emits nothing; stop() on a stopped browser does nothing.
\* ------------------------------------------------------------------------

C10_Stop ==
    /\ last.op = "stop" =>
          /\ services = before.services /\ events = <<>> /\ ~onresponse
          /\ ~before.onresponse => EngineUnchanged
    /\ (last.op = "response" /\ ~before.onresponse) =>
          EngineUnchanged /\ events = <<>>

\* A stopped browser that knows a service has been delivered a full
\* announcement of another.
C10_Witness ==
    /\ last.op = "response" /\ ~before.onresponse
    /\ Len(services) = 1 /\ services[1].fqdn = InstanceB
    /\ Len(About("PTR", HttpTcp)) = 2 /\ Len(About("SRV", InstanceA)) = 1
    /\ Len(About("TXT", InstanceA)) = 1 /\ Len(About("A", Host1)) = 1

\* ------------------------------------------------------------------------
\* C11: start() is idempotent. On a browser that is listening it registers
\* no handler and issues no query; there is never more than one handler,
\* and there is one exactly when the browser is listening; on a stopped
\* browser it registers one handler and issues one PTR query, for the
\* browser's own name.
\* ------------------------------------------------------------------------

C11_StartOnce ==
    /\ listeners <= 1
    /\ listeners = 1 <=> onresponse
    /\ last.op = "start" =>
          /\ events = <<>> /\ onresponse
          /\ before.onresponse => EngineUnchanged
          /\ ~before.onresponse =>
                /\ listeners = before.listeners + 1
                /\ queries = Query(before.queries, thisName)

\* start() has been called on a listening browser that knows a service.
C11_Witness ==
    /\ last.op = "start" /\ before.onresponse
    /\ Len(services) >= 1 /\ listeners = 1
    /\ queries = before.queries

\* ------------------------------------------------------------------------
\* C12: the services accessor returns a snapshot: what the returned array
\* lists does not change through any later operation of the browser.
\* ------------------------------------------------------------------------

\* After every operation, the array the accessor returned right before it
\* lists the services it listed when it was returned.
C12_Snapshot ==
    last.op # "none" => held = Fqdns(before.services)

\* ------------------------------------------------------------------------
\* C13: whenever a down event is delivered, whether for a goodbye, for a TXT
\* update that fails the filter or for expire(), the service it reports is no
\* longer in the list the services accessor shows at that moment.
\* ------------------------------------------------------------------------

C13_RemovedBeforeDown ==
    \A i \in 1..Len(events) :
        events[i].type = "down" =>
            \A j \in 1..Len(events[i].listed) :
                events[i].listed[j] # events[i].service.fqdn

\* ------------------------------------------------------------------------
\* C14: within one packet and one tracked name the goodbyes are handled
\* before the candidates: a packet with a PTR record of ttl 0 for a known
\* service and a PTR record of positive ttl with an SRV record for the same
\* fqdn fires down for the old entry and then up for the new candidate, and
\* the service is in the known set exactly once afterwards.
\* ------------------------------------------------------------------------

\* The types of the events about fqdn, in the order they were emitted.
RECURSIVE TypesAbout(_, _)
TypesAbout(i, fqdn) ==
    IF i > Len(events) THEN <<>>
    ELSE (IF events[i].service.fqdn = fqdn THEN <<events[i].type>> ELSE <<>>)
             \o TypesAbout(i + 1, fqdn)

\* fqdn has a goodbye and an announcement with an SRV record under one
\* tracked name, and the candidate passes the filter.
GoodbyeAndAnnounce(fqdn) ==
    /\ Known(before.services, fqdn)
    /\ Len(About("SRV", fqdn)) >= 1
    /\ \E n \in Types :
          /\ Tracked(n)
          /\ \E i, j \in 1..Len(Received) :
                /\ Received[i].type = "PTR" /\ Received[i].name = n
                /\ Received[i].data = fqdn /\ Received[i].ttl = 0
                /\ Received[j].type = "PTR" /\ Received[j].name = n
                /\ Received[j].data = fqdn /\ Received[j].ttl > 0
    /\ txtQuery.defined =>
          /\ Len(About("TXT", fqdn)) >= 1
          /\ Satisfies(decodeAll(Last(About("TXT", fqdn)).raw).map)

C14_GoodbyeFirst ==
    Handled =>
        \A f \in Instances :
            GoodbyeAndAnnounce(f) =>
                /\ TypesAbout(1, f) = <<"down", "up">>
                /\ \E i \in 1..Len(events) :
                      /\ events[i].type = "down"
                      /\ events[i].service = Entry(before.services, f)
                /\ Cardinality({i \in 1..Len(services) : services[i].fqdn = f}) = 1
                /\ Entry(services, f).lastSeen = before.now
                /\ \E i \in 1..Len(events) :
                      /\ events[i].type = "up"
                      /\ events[i].service = Entry(services, f)

\* A known service has been said goodbye to and announced again in one
\* packet, the announcement standing before the goodbye in the answers.
C14_Witness ==
    /\ Handled /\ GoodbyeAndAnnounce(InstanceA)
    /\ Received[1].type = "PTR" /\ Received[1].ttl > 0
    /\ Received[2].type = "PTR" /\ Received[2].ttl = 0
    /\ Len(events) = 2 /\ Len(services) = 1

\* ------------------------------------------------------------------------
\* C15: the address part of the SRV test compares address sets: a packet
\* that gives a known service the same host, port and TXT and the same set
\* of addresses, in another record order or with a record repeated, fires
\* no srv-update.
\* ------------------------------------------------------------------------

Range(seq) == {seq[i] : i \in 1..Len(seq)}

C15_AddressSets ==
    Handled =>
        \A f \in Instances :
            (/\ SameSrvAndTxt(f)
             /\ Range(AddressesIn(Entry(before.services, f).host))
                    = Range(Entry(before.services, f).addresses))
                => EventsAbout("srv-update", f) = {}

\* ------------------------------------------------------------------------
\* C16: every packet that yields a candidate for a service that is known and
\* stays known sets the stored entry's lastSeen to the packet's receive
\* time, whether or not an update event fires; nothing else moves lastSeen;
\* so expire() removes no service before ttl seconds have passed since the
\* most recent packet that confirmed it.
\* ------------------------------------------------------------------------

\* The handled packet yields a candidate for fqdn: a PTR record of positive
\* ttl under a tracked name, and an SRV record.
Confirms(fqdn) ==
    Handled /\ Announces(fqdn) /\ Len(About("SRV", fqdn)) >= 1

C16_LastSeen ==
    /\ \A f \in Instances :
          Known(services, f) =>
              /\ Confirms(f) => Entry(services, f).lastSeen = before.now
              /\ (last.op # "none" /\ ~Confirms(f)) =>
                    /\ Known(before.services, f)
                    /\ Entry(services, f).lastSeen = Entry(before.services, f).lastSeen
              /\ Entry(services, f).lastSeen <= now
    /\ last.op = "expire" =>
          \A i \in 1..Len(events) :
              before.now > events[i].service.lastSeen
                               + events[i].service.ttl * MsPerSecond

\* A known service has been confirmed, at a later time, by a packet that
\* fires no event.
C16_Witness ==
    /\ Confirms(InstanceA) /\ Known(before.services, InstanceA)
    /\ events = <<>>
    /\ Entry(before.services, InstanceA).lastSeen < before.now
    /\ Entry(services, InstanceA).lastSeen = before.now

\* ------------------------------------------------------------------------
\* C17: whenever the engine is idle every known service satisfies the
\* browser's TXT filter: a candidate that fails it is not admitted and
\* fires no up, and an update that makes a known service fail it does not
\* leave the service in the known set.
\* ------------------------------------------------------------------------

\* The TXT records of the handled packet give fqdn a mapping that fails the
\* filter, or the packet has none for it.
FailsFilter(fqdn) ==
    LET txts == About("TXT", fqdn) IN
    /\ txtQuery.defined
    /\ Len(txts) >= 1 => ~Satisfies(decodeAll(Last(txts).raw).map)

C17_FilterHolds ==
    /\ \A i \in 1..Len(services) :
          txtQuery.defined =>
              services[i].txt.defined /\ txtQuery.map \subseteq services[i].txt.map
    /\ \A i \in 1..Len(events) :
          events[i].type = "up" => Satisfies(MapOf(events[i].service.txt))
    /\ Handled =>
          \A f \in Instances :
              (Confirms(f) /\ FailsFilter(f)) =>
                  ~Known(services, f) /\ EventsAbout("up", f) = {}

\* A filtering browser has been given a candidate for an unknown service,
\* with a TXT record that fails the filter.
C17_Witness ==
    /\ Confirms(InstanceA) /\ FailsFilter(InstanceA)
    /\ Len(About("TXT", InstanceA)) = 1
    /\ ~Known(before.services, InstanceA)
    /\ events = <<>> /\ services = before.services

\* ------------------------------------------------------------------------
\* C18: for every fqdn the up and down events alternate, beginning with up;
\* srv-update and txt-update come only between an up and the next down; and
\* when the engine is idle the known set holds exactly the fqdns whose most
\* recent up or down was an up.
\* ------------------------------------------------------------------------

\* Whether fqdn is up after the first i events of the operation, counted
\* from whether it was known when the operation began; "bad" once an event
\* came out of turn.
RECURSIVE Walk(_, _)
Walk(i, fqdn) ==
    IF i = 0 THEN (IF Known(before.services, fqdn) THEN "up" ELSE "down")
    ELSE LET was == Walk(i - 1, fqdn)
             e == events[i]
         IN  IF e.service.fqdn # fqdn THEN was
             ELSE IF e.type = "up" THEN (IF was = "down" THEN "up" ELSE "bad")
             ELSE IF e.type = "down" THEN (IF was = "up" THEN "down" ELSE "bad")
             ELSE (IF was = "up" THEN "up" ELSE "bad")

\* Every operation continues the alternation it found and ends with the
\* known set that its events describe (in the initial state nothing is known
\* and nothing has been emitted).
C18_Alternation ==
    /\ last.op = "none" => events = <<>>
    /\ last.op # "none" =>
          /\ \A i \in 1..Len(events) :
                /\ events[i].service.fqdn \in Instances
                /\ events[i].type \in {"up", "down", "srv-update", "txt-update"}
          /\ \A f \in Instances :
                Walk(Len(events), f) = IF Known(services, f) THEN "up" ELSE "down"

\* Of two known services expire() has taken the one that was announced
\* first down, and the other stays up.
C18_Witness ==
    /\ last.op = "expire" /\ Len(before.services) = 2
    /\ TypesAbout(1, before.services[1].fqdn) = <<"down">>
    /\ TypesAbout(1, before.services[2].fqdn) = <<>>
    /\ Walk(Len(events), before.services[1].fqdn) = "down"
    /\ Walk(Len(events), before.services[2].fqdn) = "up"

\* ------------------------------------------------------------------------
\* C19: a re-announcement of a known service that differs from the stored
\* entry only in the PTR record's ttl refreshes lastSeen, leaves the stored
\* ttl as it was and fires no event; the stored ttl of a service that stays
\* known changes only when an srv-update or txt-update replaces the entry.
\* ------------------------------------------------------------------------

\* The ttls of the PTR records that announce fqdn under a tracked name.
AnnouncedTtls(fqdn) ==
    {Received[i].ttl : i \in {j \in 1..Len(Received) :
        /\ Received[j].type = "PTR" /\ Received[j].ttl > 0
        /\ Tracked(Received[j].name) /\ Received[j].data = fqdn}}

\* The packet announces the known service fqdn with the stored SRV, TXT and
\* addresses, without a goodbye, and under another ttl only.
OnlyTtlDiffers(fqdn) ==
    /\ Handled /\ SameSrvAndTxt(fqdn) /\ ~SaysGoodbye(fqdn)
    /\ AddressesIn(Entry(before.services, fqdn).host)
           = Entry(before.services, fqdn).addresses
    /\ AnnouncedTtls(fqdn) # {}
    /\ \A ttl \in AnnouncedTtls(fqdn) : ttl # Entry(before.services, fqdn).ttl

C19_TtlKept ==
    \A f \in Instances :
        /\ OnlyTtlDiffers(f) =>
              /\ Known(services, f)
              /\ Entry(services, f)
                     = [Entry(before.services, f) EXCEPT !.lastSeen = before.now]
              /\ \A i \in 1..Len(events) : events[i].service.fqdn # f
        /\ (/\ last.op # "none"
            /\ Known(before.services, f) /\ Known(services, f)
            /\ Entry(services, f).ttl # Entry(before.services, f).ttl) =>
              \/ EventsAbout("srv-update", f) # {}
              \/ EventsAbout("txt-update", f) # {}
              \/ EventsAbout("down", f) # {} /\ EventsAbout("up", f) # {}

\* A service stored under ttl 1 has been announced again, later and under
\* ttl 2, with the same records otherwise.
C19_Witness ==
    /\ OnlyTtlDiffers(InstanceA)
    /\ Entry(before.services, InstanceA).ttl = 1
    /\ AnnouncedTtls(InstanceA) = {2}
    /\ Entry(before.services, InstanceA).lastSeen < before.now
    /\ Entry(services, InstanceA).ttl = 1

\* ------------------------------------------------------------------------
\* C20: in wildcard mode the tracked type names do not survive stop() and
\* start(), while the known set does: after the restart a packet of goodbyes
\* or announcements for types discovered before changes nothing and fires
\* nothing, until a meta-PTR answer for the type arrives again, and then a
\* PTR query for the type is issued again.
\* ------------------------------------------------------------------------

\* No PTR record of the handled packet is a meta-PTR answer or stands under
\* a type that was tracked when the packet came.
NothingTracked ==
    /\ \A t \in Types : ~HasMetaAnswer(t)
    /\ \A i \in 1..Len(Received) :
          Received[i].type = "PTR" => ~InNameMap(Received[i].name, before.nameMap)

C20_Restart ==
    wildcard =>
        /\ (last.op = "start" /\ ~before.onresponse) =>
              nameMap = <<>> /\ services = before.services /\ events = <<>>
        /\ (Handled /\ NothingTracked) => EngineUnchanged /\ events = <<>>
        /\ Handled =>
              \A t \in Types :
                  (HasMetaAnswer(t) /\ ~InNameMap(t, before.nameMap)) =>
                      InNameMap(t, nameMap) /\ queries[t] > before.queries[t]

\* After a restart, a wildcard browser that knows an instance of a type it
\* had discovered and queried has been sent a goodbye for that instance.
C20_Witness ==
    /\ wildcard /\ Handled /\ NothingTracked
    /\ before.nameMap = <<>> /\ before.queries[HttpTcp] >= 1
    /\ Known(before.services, InstanceA)
    /\ \E i \in 1..Len(Received) :
          /\ Received[i].type = "PTR" /\ Received[i].name = HttpTcp
          /\ Received[i].data = InstanceA /\ Received[i].ttl = 0
    /\ services = before.services /\ events = <<>>

====
